---- MODULE Spec2Model ----
(***************************************************************************)
(* Model of wunderlist/sync.py: sync(), the blocking synchronisation       *)
(* pass, and backgroundSync(), the launcher that asks the job-tracking     *)
(* collaborator to run sync in a detached process.                         *)
(*                                                                         *)
(* The collaborators sync.py calls (workflow.background.run_in_background, *)
(* the persistence layer's create_tables, Root.sync) are not part of       *)
(* sync.py; they are modelled from the specification's description of them *)
(* and every outcome the description leaves open is a nondeterministic     *)
(* choice.                                                                 *)
(***************************************************************************)
EXTENDS Integers, Sequences, FiniteSets, TLC

\* ---- bounds of the model ------------------------------------------------
\* backgroundSync() calls made in one behaviour; each call is made by some
\* interactive process, and calls are numbered in the order they start
MaxCalls == 2
\* sync() calls the foreground process makes, one after the other
MaxFgRuns == 1
\* contents of a table are a number in 0..MaxRows
MaxRows == 1
\* consecutive schema-step calls in SpecSchema
MaxSchemaCalls == 3

Calls == 1..MaxCalls
\* the foreground process
FgIds == {0}
\* process ids the spawn collaborator hands out: one per call at most
Pids == 1..MaxCalls
RunIds == FgIds \cup Pids

\* ---- constants of sync.py -----------------------------------------------
\* the job identity backgroundSync() passes to run_in_background
JobId == "sync"
\* workflow().workflowfile('alfred-wunderlist-workflow.py')
EntryFilePath == "alfred-wunderlist-workflow.py"
\* mutant: the commit flag is left out of the command
CommandNoCommit == <<"/usr/bin/env", "python", EntryFilePath, "sync">>
\* the command line backgroundSync() passes to run_in_background
Command == <<"/usr/bin/env", "python", EntryFilePath, "sync", "--commit">>
\* the model modules sync() imports: the tables the persistence layer knows
AllTables == {"root", "list", "task", "user"}
\* mutant: the user model is left out of the list
SyncTablesNoUser == {"root", "list", "task"}
\* the models sync() passes to create_tables: root.Root, list.List,
\* task.Task, user.User
SyncTables == {"root", "list", "task", "user"}
\* mutant: create_tables is called with safe=False
SafeOff == FALSE
\* the safe= argument sync() passes to create_tables
Safe == TRUE

\* errors Root.sync() may raise (specification, section 6)
ReconciliationErrors == {"network", "auth", "conflict"}

VARIABLES
  pc,          \* pc[k]: where the k-th backgroundSync() call is
  ncalls,      \* backgroundSync() calls started so far
  callLog,     \* callLog[k]: what the k-th call saw and asked for
  run,         \* run[r]: the sync() run of process r (foreground or spawned)
  fgRuns,      \* sync() calls the foreground process has started
  tables0,     \* history: the tables the store held initially
  tables,      \* names of the tables that exist in the store
  content,     \* content[t]: the contents of table t (0 when absent or empty)
  storageOk,   \* whether the store accepts schema statements
  raced,       \* history: some call's check happened inside another call's
               \* check-and-spawn window
  schemaHist   \* SpecSchema: result of each consecutive schema-step call

vars == <<pc, ncalls, callLog, run, fgRuns, tables0, tables, content, storageOk, raced, schemaHist>>

FreeRun == [pc |-> "free", err |-> "none", syncs |-> 0, tag |-> "", cmd |-> <<>>]
ExitedRun == [FreeRun EXCEPT !.pc = "exited"]

\* a process is alive from its start until it exits
Alive(r) == run[r].pc \notin {"free", "exited"}

\* the processes the job tracker holds under a job identity
AliveJobs(name) == {p \in Pids : Alive(p) /\ run[p].tag = name}

\* workflow.background.is_running(name)
is_running(name) == AliveJobs(name) # {}

\* ---- the persistence collaborator ---------------------------------------
\* create_tables(models, safe): with safe=True a table is created only if it
\* is absent; with safe=False creating an existing table is an error. When
\* the store rejects schema statements nothing is created. New tables are
\* empty; existing tables and their contents are never touched.
create_tables(exists, rows, ok, models, safe) ==
  IF ~ok THEN [tables |-> exists, content |-> rows, err |-> "SchemaError"]
  ELSE IF ~safe /\ (models \cap exists) # {}
       THEN [tables |-> exists, content |-> rows, err |-> "TableExists"]
       ELSE [tables |-> exists \cup models, content |-> rows, err |-> "none"]

\* ---- sync() --------------------------------------------------------------
\* a process enters sync(): its first statement is the create_tables call
StartRun(r, tag, cmd) ==
  [pc |-> "create_tables", err |-> "none", syncs |-> 0, tag |-> tag, cmd |-> cmd]

\* mutant: sync() asks the job tracker first and waits while a job is running
syncForegroundGated(r) ==
  /\ r \in FgIds
  /\ run[r].pc \in {"free", "exited"}
  /\ fgRuns < MaxFgRuns
  /\ ~is_running(JobId)
  /\ fgRuns' = fgRuns + 1
  /\ run' = [run EXCEPT ![r] = StartRun(r, "", <<>>)]
  /\ UNCHANGED <<pc, ncalls, callLog, tables, content, storageOk, raced, schemaHist, tables0>>

\* a foreground caller invokes sync() directly; it registers no job
syncForeground(r) ==
  /\ r \in FgIds
  /\ run[r].pc \in {"free", "exited"}
  /\ fgRuns < MaxFgRuns
  /\ fgRuns' = fgRuns + 1
  /\ run' = [run EXCEPT ![r] = StartRun(r, "", <<>>)]
  /\ UNCHANGED <<pc, ncalls, callLog, tables, content, storageOk, raced, schemaHist, tables0>>

\* mutant: the error of create_tables is swallowed and the run goes on
syncCreateTablesSwallow(r) ==
  /\ run[r].pc = "create_tables"
  /\ LET res == create_tables(tables, content, storageOk, SyncTables, Safe)
     IN /\ tables' = res.tables
        /\ content' = res.content
        /\ run' = [run EXCEPT ![r].pc = "root_sync", ![r].err = res.err]
  /\ UNCHANGED <<pc, ncalls, callLog, storageOk, raced, schemaHist, fgRuns, tables0>>

\* mutant: the tables are dropped and created again
syncCreateTablesRecreate(r) ==
  /\ run[r].pc = "create_tables"
  /\ LET res == create_tables({}, [t \in AllTables |-> 0], storageOk, SyncTables, Safe)
     IN /\ tables' = res.tables
        /\ content' = res.content
        /\ run' = IF res.err = "none"
                  THEN [run EXCEPT ![r].pc = "root_sync"]
                  ELSE [run EXCEPT ![r].pc = "raised", ![r].err = res.err]
  /\ UNCHANGED <<pc, ncalls, callLog, storageOk, raced, schemaHist, fgRuns, tables0>>

\* base.BaseModel._meta.database.create_tables([...], safe=True): an error
\* is not caught, so it leaves sync() before Root.sync() is reached
syncCreateTables(r) ==
  /\ run[r].pc = "create_tables"
  /\ LET res == create_tables(tables, content, storageOk, SyncTables, Safe)
     IN /\ tables' = res.tables
        /\ content' = res.content
        /\ run' = IF res.err = "none"
                  THEN [run EXCEPT ![r].pc = "root_sync"]
                  ELSE [run EXCEPT ![r].pc = "raised", ![r].err = res.err]
  /\ UNCHANGED <<pc, ncalls, callLog, storageOk, raced, schemaHist, fgRuns, tables0>>

\* root.Root.sync() is invoked
syncRootSync(r) ==
  /\ run[r].pc = "root_sync"
  /\ run' = [run EXCEPT ![r].pc = "reconciling", ![r].syncs = @ + 1]
  /\ UNCHANGED <<pc, ncalls, callLog, tables, content, storageOk, raced, schemaHist, fgRuns, tables0>>

\* Root.sync() completes: the reconciliation has rewritten the contents of
\* the tables; sync() returns
RootSyncReturns(r) ==
  /\ run[r].pc = "reconciling"
  /\ \E v \in 0..MaxRows :
       content' = [t \in AllTables |-> IF t \in tables THEN v ELSE 0]
  /\ run' = [run EXCEPT ![r].pc = "done"]
  /\ UNCHANGED <<pc, ncalls, callLog, tables, storageOk, raced, schemaHist, fgRuns, tables0>>

\* Root.sync() raises one of its errors into sync()
RootSyncRaises(r) ==
  /\ run[r].pc = "reconciling"
  /\ \E e \in ReconciliationErrors :
       run' = [run EXCEPT ![r].pc = "raising", ![r].err = e]
  /\ UNCHANGED <<pc, ncalls, callLog, tables, content, storageOk, raced, schemaHist, fgRuns, tables0>>

\* mutant: sync() catches the error and raises one of its own
syncRaiseWrapped(r) ==
  /\ run[r].pc = "raising"
  /\ run' = [run EXCEPT ![r].pc = "raised", ![r].err = "SyncError"]
  /\ UNCHANGED <<pc, ncalls, callLog, tables, content, storageOk, raced, schemaHist, fgRuns, tables0>>

\* the error of Root.sync() meets no try/except in sync(): it leaves sync()
\* as it is, and nothing is undone
syncRaise(r) ==
  /\ run[r].pc = "raising"
  /\ run' = [run EXCEPT ![r].pc = "raised"]
  /\ UNCHANGED <<pc, ncalls, callLog, tables, content, storageOk, raced, schemaHist, fgRuns, tables0>>

\* the process that ran sync() ends (a spawned one leaves the job tracker)
ProcessExit(r) ==
  /\ run[r].pc \in {"done", "raised"}
  /\ run' = [run EXCEPT ![r] = ExitedRun]
  /\ UNCHANGED <<pc, ncalls, callLog, tables, content, storageOk, raced, schemaHist, fgRuns, tables0>>

\* the process that ran sync() ends and the operating system takes its
\* process id back at once
ProcessEnds(r) ==
  /\ run[r].pc \in {"done", "raised"}
  /\ run' = [run EXCEPT ![r] = FreeRun]
  /\ UNCHANGED <<pc, ncalls, callLog, tables, content, storageOk, raced, schemaHist, fgRuns, tables0>>

\* ---- the job-tracking / spawn collaborator ------------------------------
NoCall == [seen |-> {}, attempts |-> <<>>]

\* a spawn request handed to the operating system
Attempt(name, args) == [tag |-> name, cmd |-> args, pid |-> 0, state |-> "requested"]

\* run_in_background(name, args), first half: ask whether a job `name` is
\* running; if so do nothing, otherwise go on to spawn. The check and the
\* spawn are two steps: the specification promises no atomicity.
run_in_background(k, name, args) ==
  LET seen == AliveJobs(name)
  IN /\ callLog' = [callLog EXCEPT ![k] =
                      [seen |-> seen,
                       attempts |-> IF is_running(name) THEN <<>>
                                    ELSE <<Attempt(name, args)>>]]
     /\ pc' = [pc EXCEPT ![k] = IF is_running(name) THEN "ret" ELSE "spawn"]
     /\ raced' = (raced \/ (~is_running(name) /\ \E j \in Calls \ {k} : pc[j] = "spawn"))

\* mutant helper: the spawn request issued without the is-running check
spawn_unchecked(k, name, args) ==
  LET seen == AliveJobs(name)
  IN /\ callLog' = [callLog EXCEPT ![k] =
                      [seen |-> seen, attempts |-> <<Attempt(name, args)>>]]
     /\ pc' = [pc EXCEPT ![k] = "spawn"]
     /\ raced' = (raced \/ (~is_running(name) /\ \E j \in Calls \ {k} : pc[j] = "spawn"))

\* the lowest process id not handed out yet
NextPid == CHOOSE p \in Pids : run[p].pc = "free" /\ \A q \in Pids : q < p => run[q].pc # "free"

\* run_in_background, second half: the detached process is created and
\* registered under the job identity; it starts at the entry of sync()
SpawnSucceeds(k) ==
  /\ pc[k] = "spawn"
  /\ LET a == callLog[k].attempts[1]
         p == NextPid
     IN /\ run' = [run EXCEPT ![p] = StartRun(p, a.tag, a.cmd)]
        /\ callLog' = [callLog EXCEPT ![k].attempts =
                         <<[a EXCEPT !.pid = p, !.state = "spawned"]>>]
  /\ pc' = [pc EXCEPT ![k] = "ret"]
  /\ UNCHANGED <<ncalls, fgRuns, tables, content, storageOk, raced, schemaHist, tables0>>

\* the process could not be created and the collaborator only logs it
SpawnFailsLogged(k) ==
  /\ pc[k] = "spawn"
  /\ callLog' = [callLog EXCEPT ![k].attempts =
                   <<[callLog[k].attempts[1] EXCEPT !.state = "failed"]>>]
  /\ pc' = [pc EXCEPT ![k] = "ret"]
  /\ UNCHANGED <<ncalls, run, fgRuns, tables, content, storageOk, raced, schemaHist, tables0>>

\* the process could not be created and the collaborator raises SpawnError
SpawnFailsRaises(k) ==
  /\ pc[k] = "spawn"
  /\ callLog' = [callLog EXCEPT ![k].attempts =
                   <<[callLog[k].attempts[1] EXCEPT !.state = "failed"]>>]
  /\ pc' = [pc EXCEPT ![k] = "raising"]
  /\ UNCHANGED <<ncalls, run, fgRuns, tables, content, storageOk, raced, schemaHist, tables0>>

\* ---- backgroundSync() -----------------------------------------------------
\* mutant: the process is spawned without asking whether a sync is running
backgroundSyncUnchecked(k) ==
  /\ pc[k] = "idle"
  /\ k = ncalls + 1
  /\ ncalls' = ncalls + 1
  /\ spawn_unchecked(k, JobId, Command)
  /\ UNCHANGED <<run, fgRuns, tables, content, storageOk, schemaHist, tables0>>

\* mutant: the launcher asks is_running itself and calls run_in_background
\* only when no job is running
backgroundSyncOwnCheck(k) ==
  /\ pc[k] = "idle"
  /\ k = ncalls + 1
  /\ ncalls' = ncalls + 1
  /\ IF is_running(JobId)
     THEN /\ pc' = [pc EXCEPT ![k] = "ret"]
          /\ UNCHANGED <<callLog, raced>>
     ELSE run_in_background(k, JobId, Command)
  /\ UNCHANGED <<run, fgRuns, tables, content, storageOk, schemaHist, tables0>>

\* mutant: the launcher runs the schema step itself before it asks for the
\* background process
backgroundSyncInline(k) ==
  /\ pc[k] = "idle"
  /\ k = ncalls + 1
  /\ ncalls' = ncalls + 1
  /\ run_in_background(k, JobId, Command)
  /\ LET res == create_tables(tables, content, storageOk, SyncTables, Safe)
     IN tables' = res.tables /\ content' = res.content
  /\ UNCHANGED <<run, fgRuns, storageOk, schemaHist, tables0>>

\* mutant: the launcher remembers that it has launched a sync and asks the
\* collaborator only the first time
backgroundSyncRemembers(k) ==
  /\ pc[k] = "idle"
  /\ k = ncalls + 1
  /\ ncalls' = ncalls + 1
  /\ IF ncalls = 0
     THEN run_in_background(k, JobId, Command)
     ELSE /\ callLog' = [callLog EXCEPT ![k] = [seen |-> AliveJobs(JobId), attempts |-> <<>>]]
          /\ pc' = [pc EXCEPT ![k] = "ret"]
          /\ raced' = raced
  /\ UNCHANGED <<run, fgRuns, tables, content, storageOk, schemaHist, tables0>>

\* the k-th call enters backgroundSync(): its one statement is
\* run_in_background('sync', [...])
backgroundSync(k) ==
  /\ pc[k] = "idle"
  /\ k = ncalls + 1
  /\ ncalls' = ncalls + 1
  /\ run_in_background(k, JobId, Command)
  /\ UNCHANGED <<run, fgRuns, tables, content, storageOk, schemaHist, tables0>>

\* mutant: after its first call the launcher takes a sync to be running and
\* does nothing
backgroundSyncAgainLocked(k) ==
  /\ pc[k] \in {"returned", "raised"}
  /\ callLog' = [callLog EXCEPT ![k] = [seen |-> AliveJobs(JobId), attempts |-> <<>>]]
  /\ pc' = [pc EXCEPT ![k] = "ret"]
  /\ UNCHANGED <<ncalls, raced, run, fgRuns, tables, content, storageOk, schemaHist, tables0>>

\* the interactive source of the k-th call calls backgroundSync() again,
\* its earlier call being over
backgroundSyncAgain(k) ==
  /\ pc[k] \in {"returned", "raised"}
  /\ run_in_background(k, JobId, Command)
  /\ UNCHANGED <<ncalls, run, fgRuns, tables, content, storageOk, schemaHist, tables0>>

\* the processes the k-th call has spawned
SpawnedBy(k) ==
  {callLog[k].attempts[i].pid : i \in {j \in 1..Len(callLog[k].attempts) :
                                         callLog[k].attempts[j].state = "spawned"}}

\* mutant: the call waits for the process it spawned
backgroundSyncReturnWaits(k) ==
  /\ pc[k] = "ret"
  /\ \A p \in SpawnedBy(k) : ~Alive(p)
  /\ pc' = [pc EXCEPT ![k] = "returned"]
  /\ UNCHANGED <<ncalls, callLog, run, fgRuns, tables, content, storageOk, raced, schemaHist, tables0>>

\* run_in_background has returned and backgroundSync() returns to its caller
backgroundSyncReturn(k) ==
  /\ pc[k] = "ret"
  /\ pc' = [pc EXCEPT ![k] = "returned"]
  /\ UNCHANGED <<ncalls, callLog, run, fgRuns, tables, content, storageOk, raced, schemaHist, tables0>>

\* run_in_background has raised: backgroundSync() has no try/except, the
\* error reaches its caller
backgroundSyncRaise(k) ==
  /\ pc[k] = "raising"
  /\ pc' = [pc EXCEPT ![k] = "raised"]
  /\ UNCHANGED <<ncalls, callLog, run, fgRuns, tables, content, storageOk, raced, schemaHist, tables0>>

\* ---- the schema step on its own -------------------------------------------
\* lines 4-9 of sync(), called again and again on the same store
ensureSchema ==
  /\ Len(schemaHist) < MaxSchemaCalls
  /\ LET res == create_tables(tables, content, storageOk, SyncTables, Safe)
     IN /\ tables' = res.tables
        /\ content' = res.content
        /\ schemaHist' = Append(schemaHist, [tables |-> res.tables, err |-> res.err])
  /\ UNCHANGED <<pc, ncalls, callLog, run, fgRuns, tables0, storageOk, raced>>

\* ---- the specifications ---------------------------------------------------
\* nothing has been called yet
InitProcs ==
  /\ pc = [k \in Calls |-> "idle"]
  /\ ncalls = 0
  /\ callLog = [k \in Calls |-> NoCall]
  /\ run = [r \in RunIds |-> FreeRun]
  /\ fgRuns = 0
  /\ raced = FALSE
  /\ schemaHist = <<>>

\* any store: each of the four tables absent, or present with some contents
InitAnyStore ==
  /\ tables \in SUBSET AllTables
  /\ tables0 = tables
  /\ content \in {f \in [AllTables -> 0..MaxRows] : \A t \in AllTables \ tables : f[t] = 0}
  /\ storageOk \in BOOLEAN

\* Spec: the launcher and the processes it spawns. The store is fresh (no
\* tables) or holds the four tables, populated.
Init ==
  /\ InitProcs
  /\ tables \in {{}, AllTables}
  /\ tables0 = tables
  /\ content = [t \in AllTables |-> IF t \in tables THEN 1 ELSE 0]
  /\ storageOk \in BOOLEAN

Next ==
  \/ \E k \in Calls : backgroundSync(k)
  \/ \E k \in Calls : SpawnSucceeds(k)
  \/ \E k \in Calls : SpawnFailsLogged(k)
  \/ \E k \in Calls : SpawnFailsRaises(k)
  \/ \E k \in Calls : backgroundSyncReturn(k)
  \/ \E k \in Calls : backgroundSyncRaise(k)
  \/ \E r \in Pids : syncCreateTables(r)
  \/ \E r \in Pids : syncRootSync(r)
  \/ \E r \in Pids : RootSyncReturns(r)
  \/ \E r \in Pids : RootSyncRaises(r)
  \/ \E r \in Pids : syncRaise(r)
  \/ \E r \in Pids : ProcessExit(r)

Spec == Init /\ [][Next]_vars

\* SpecSync: sync() called directly, in the foreground, on any store
InitSync == InitProcs /\ InitAnyStore

NextSync ==
  \/ \E r \in FgIds : syncForeground(r)
  \/ \E r \in FgIds : syncCreateTables(r)
  \/ \E r \in FgIds : syncRootSync(r)
  \/ \E r \in FgIds : RootSyncReturns(r)
  \/ \E r \in FgIds : RootSyncRaises(r)
  \/ \E r \in FgIds : syncRaise(r)
  \/ \E r \in FgIds : ProcessExit(r)

SpecSync == InitSync /\ [][NextSync]_vars

\* SpecBoth: the launcher, the processes it spawns and a foreground sync(),
\* all on one store that holds the four tables and accepts schema
\* statements; no spawn fails and no reconciliation raises
InitBoth ==
  /\ InitProcs
  /\ tables = AllTables
  /\ tables0 = tables
  /\ content = [t \in AllTables |-> 1]
  /\ storageOk = TRUE

NextBoth ==
  \/ \E k \in Calls : backgroundSync(k)
  \/ \E k \in Calls : SpawnSucceeds(k)
  \/ \E k \in Calls : backgroundSyncReturn(k)
  \/ \E r \in FgIds : syncForeground(r)
  \/ \E r \in RunIds : syncCreateTables(r)
  \/ \E r \in RunIds : syncRootSync(r)
  \/ \E r \in RunIds : RootSyncReturns(r)
  \/ \E r \in RunIds : ProcessExit(r)

SpecBoth == InitBoth /\ [][NextBoth]_vars

\* SpecLive: the first caller calls again and again while the others call
\* once, every step of a spawned process is taken in the end (it ends by
\* completing or, the storage being out of order, by failing), and the
\* operating system does not refuse every spawn
Repeaters == {1}

InitLive ==
  /\ InitProcs
  /\ tables = AllTables
  /\ tables0 = tables
  /\ content = [t \in AllTables |-> 1]
  /\ storageOk \in BOOLEAN

NextLive ==
  \/ \E k \in Calls : backgroundSync(k)
  \/ \E k \in Repeaters : backgroundSyncAgain(k)
  \/ \E k \in Calls : SpawnSucceeds(k)
  \/ \E k \in Calls : SpawnFailsLogged(k)
  \/ \E k \in Calls : SpawnFailsRaises(k)
  \/ \E k \in Calls : backgroundSyncReturn(k)
  \/ \E k \in Calls : backgroundSyncRaise(k)
  \/ \E r \in Pids : syncCreateTables(r)
  \/ \E r \in Pids : syncRootSync(r)
  \/ \E r \in Pids : RootSyncReturns(r)
  \/ \E r \in Pids : ProcessEnds(r)

FairLive ==
  /\ WF_vars(\E k \in Calls : backgroundSync(k))
  /\ WF_vars(\E k \in Repeaters : backgroundSyncAgain(k))
  /\ WF_vars(\E k \in Calls : backgroundSyncReturn(k))
  /\ WF_vars(\E k \in Calls : backgroundSyncRaise(k))
  /\ SF_vars(\E k \in Calls : SpawnSucceeds(k))
  /\ WF_vars(\E r \in Pids : syncCreateTables(r))
  /\ WF_vars(\E r \in Pids : syncRootSync(r))
  /\ WF_vars(\E r \in Pids : RootSyncReturns(r))
  /\ WF_vars(\E r \in Pids : ProcessEnds(r))

SpecLive == InitLive /\ [][NextLive]_vars /\ FairLive

\* SpecSchema: the schema step called repeatedly on any store
InitSchema == InitProcs /\ InitAnyStore

NextSchema == ensureSchema

SpecSchema == InitSchema /\ [][NextSchema]_vars

\* ---- the claims -------------------------------------------------------------
\* the k-th call has made its is-running check
Checked(k) == pc[k] # "idle"

\* C1 as stated: in every reachable state at most one process tagged "sync"
\* is alive, also when the check-and-spawn steps of two calls overlap.
C1_AtMostOneSyncAlive == Cardinality(AliveJobs("sync")) <= 1

\* C1, amended: as long as no call has made its is-running check while
\* another call was between its own check and the registration of the
\* process it spawns, at most one process tagged "sync" is alive.
C1_AtMostOneSyncAliveUnlessOverlap ==
  ~raced => Cardinality(AliveJobs("sync")) <= 1

\* two calls, one after the other, and one sync process alive
C1_Witness ==
  /\ ~raced
  /\ ncalls = 2
  /\ pc[1] = "returned"
  /\ pc[2] = "returned"
  /\ Cardinality(AliveJobs("sync")) = 1

\* C2: a call whose check found a job tagged "sync" running issues no spawn,
\* raises no error and goes on to return.
C2_NoSpawnWhenRunning ==
  \A k \in Calls :
    (Checked(k) /\ callLog[k].seen # {}) =>
      /\ callLog[k].attempts = <<>>
      /\ pc[k] \in {"ret", "returned"}

C2_Witness ==
  \E k \in Calls :
    /\ pc[k] = "returned"
    /\ callLog[k].seen # {}
    /\ \A p \in callLog[k].seen : run[p].tag = "sync"
    /\ callLog[k].attempts = <<>>

\* C3: a call whose check found no job tagged "sync" running issues exactly
\* one spawn, tagged "sync", of the command
\* /usr/bin/env python <entry file> sync --commit.
C3_OneSpawnWhenNotRunning ==
  \A k \in Calls :
    (Checked(k) /\ callLog[k].seen = {}) =>
      /\ Len(callLog[k].attempts) = 1
      /\ callLog[k].attempts[1].tag = "sync"
      /\ callLog[k].attempts[1].cmd =
           <<"/usr/bin/env", "python", "alfred-wunderlist-workflow.py", "sync", "--commit">>

C3_Witness ==
  \E k \in Calls :
    /\ pc[k] = "returned"
    /\ callLog[k].seen = {}
    /\ Len(callLog[k].attempts) = 1
    /\ callLog[k].attempts[1].state = "spawned"
    /\ run[callLog[k].attempts[1].pid].cmd[5] = "--commit"

\* C4: when the process spawned by one call is still alive at the check of
\* the next call, the two calls issue one spawn between them.
C4_TwoCallsOneSpawn ==
  \A k \in Calls :
    (/\ k + 1 \in Calls
     /\ SpawnedBy(k) # {}
     /\ Checked(k + 1)
     /\ SpawnedBy(k) \subseteq callLog[k + 1].seen) =>
        Len(callLog[k].attempts) + Len(callLog[k + 1].attempts) = 1

C4_Witness ==
  \E k \in Calls :
    /\ k + 1 \in Calls
    /\ SpawnedBy(k) # {}
    /\ pc[k] = "returned"
    /\ pc[k + 1] = "returned"
    /\ SpawnedBy(k) \subseteq callLog[k + 1].seen
    /\ callLog[k + 1].attempts = <<>>

\* C5 as stated: a call whose spawn failed does not raise to its caller.
C5_SpawnFailureNotRaised ==
  \A k \in Calls :
    (Len(callLog[k].attempts) = 1 /\ callLog[k].attempts[1].state = "failed") =>
      pc[k] # "raised"

\* C6: a call whose run_in_background has come back can return at once,
\* whatever the process it spawned is doing.
C6_ReturnNeverWaits ==
  \A k \in Calls : pc[k] = "ret" => ENABLED backgroundSyncReturn(k)

\* a call has returned while the process it spawned has not started its
\* schema step yet, or is in the middle of reconciliation
C6_Witness ==
  \E k \in Calls :
    /\ pc[k] = "returned"
    /\ \E p \in SpawnedBy(k) : run[p].pc \in {"create_tables", "reconciling"}

\* C7: in every sync() run Root.sync() is invoked only after the schema step
\* has completed, with the four tables in place, and at most once; a run that
\* has completed has reconciled exactly once, without error.
C7_SchemaBeforeSync ==
  \A r \in RunIds :
    /\ run[r].pc \in {"root_sync", "reconciling", "done"} =>
         {"root", "list", "task", "user"} \subseteq tables
    /\ run[r].pc \in {"create_tables", "root_sync"} => run[r].syncs = 0
    /\ run[r].pc \in {"reconciling", "done"} => run[r].syncs = 1
    /\ run[r].pc = "done" => run[r].err = "none"

\* a run on a store that had no tables has completed
C7_Witness ==
  \E r \in FgIds :
    /\ tables0 = {}
    /\ fgRuns = 1
    /\ run[r].pc = "done"
    /\ run[r].syncs = 1
    /\ run[r].err = "none"
    /\ tables = {"root", "list", "task", "user"}

\* C8: after every one of N consecutive schema-step calls the set of tables
\* is the set the first call left, and no call after the first raises
\* because the tables exist.
C8_EnsureSchemaIdempotent ==
  \A i \in 1..Len(schemaHist) :
    /\ schemaHist[i].tables = schemaHist[1].tables
    /\ i > 1 => schemaHist[i].err # "TableExists"

\* the first call created tables and further calls followed
C8_Witness ==
  /\ Len(schemaHist) >= 3
  /\ tables0 # tables
  /\ tables = {"root", "list", "task", "user"}
  /\ schemaHist[1].err = "none"

\* C9: on a store that holds the four tables, populated, the schema step of
\* sync() leaves the tables and their contents as they are, and (the store
\* accepting schema statements) the run goes on to Root.sync().
C9_SchemaStepKeepsTables ==
  [][\A r \in RunIds :
       (/\ run[r].pc = "create_tables"
        /\ run'[r].pc # "create_tables"
        /\ {"root", "list", "task", "user"} \subseteq tables
        /\ \A t \in tables : content[t] >= 1) =>
          /\ tables' = tables
          /\ content' = content
          /\ storageOk => run'[r].pc = "root_sync"]_vars

\* the schema step has run on a populated store and reconciliation is under way
C9_Witness ==
  \E r \in FgIds :
    /\ tables0 = {"root", "list", "task", "user"}
    /\ fgRuns = 1
    /\ run[r].pc = "reconciling"
    /\ \A t \in tables : content[t] >= 1

\* C10: a sync() run whose table creation failed has raised that failure to
\* its caller and has never invoked Root.sync().
C10_SchemaFailureAborts ==
  \A r \in RunIds :
    /\ run[r].err \in {"SchemaError", "TableExists"} =>
         run[r].pc = "raised" /\ run[r].syncs = 0
    /\ (~storageOk /\ run[r].pc \notin {"free", "create_tables", "exited"}) =>
         run[r].pc = "raised" /\ run[r].err = "SchemaError" /\ run[r].syncs = 0

C10_Witness ==
  \E r \in FgIds :
    /\ ~storageOk
    /\ run[r].pc = "raised"
    /\ run[r].err = "SchemaError"
    /\ run[r].syncs = 0

\* C11: when Root.sync() raises inside a sync() run, sync() raises that very
\* error to its caller, and the four tables the schema step left are still
\* there, with their contents.
C11_ReconciliationErrorPropagates ==
  [][\A r \in RunIds :
       (run[r].pc = "raising" /\ run'[r].pc # "raising") =>
          /\ run[r].err \in {"network", "auth", "conflict"}
          /\ run'[r].pc = "raised"
          /\ run'[r].err = run[r].err
          /\ tables' = tables
          /\ content' = content
          /\ {"root", "list", "task", "user"} \subseteq tables']_vars

\* an auth failure has left a run that started on a store without tables
C11_Witness ==
  \E r \in FgIds :
    /\ tables0 = {}
    /\ fgRuns = 1
    /\ run[r].pc = "raised"
    /\ run[r].err = "auth"
    /\ run[r].syncs = 1
    /\ tables = {"root", "list", "task", "user"}

\* C12: whether a call goes on to spawn is decided by the job tracker's answer
\* for "sync" at the time of the call alone, whatever the number of earlier
\* calls, and a call issues at most one spawn.
C12_DecisionDependsOnTrackerOnly ==
  [][\A k \in Calls :
       /\ (pc[k] = "idle" /\ pc'[k] # "idle") =>
            /\ pc'[k] = "spawn" <=> AliveJobs("sync") = {}
            /\ pc'[k] = "ret" <=> AliveJobs("sync") # {}
            /\ run' = run
       /\ Len(callLog'[k].attempts) <= 1
       /\ Cardinality({p \in Pids : run[p].pc = "free" /\ run'[p].pc # "free"}) <= 1]_vars

\* the second call spawns again, the process of the first having ended
C12_Witness ==
  /\ ~raced
  /\ ncalls = 2
  /\ pc[2] = "returned"
  /\ SpawnedBy(1) # {}
  /\ SpawnedBy(2) # {}
  /\ SpawnedBy(1) # SpawnedBy(2)

\* C13: no step of a backgroundSync() call changes the tables or their
\* contents; whenever the store changes, the step is one of a spawned process
\* tagged "sync" that runs the entry file with sync --commit.
C13_LauncherLeavesStoreAlone ==
  [][/\ (\E k \in Calls : pc'[k] # pc[k] \/ callLog'[k] # callLog[k]) =>
          tables' = tables /\ content' = content
     /\ (tables' # tables \/ content' # content) =>
          \E p \in Pids :
            /\ run'[p] # run[p]
            /\ run[p].tag = "sync"
            /\ run[p].cmd = <<"/usr/bin/env", "python", "alfred-wunderlist-workflow.py",
                              "sync", "--commit">>]_vars

\* a call has returned and the tables were created by the process it spawned
C13_Witness ==
  \E k \in Calls :
    /\ pc[k] = "returned"
    /\ tables0 = {}
    /\ tables = {"root", "list", "task", "user"}
    /\ \E p \in SpawnedBy(k) :
         /\ run[p].pc \in {"root_sync", "reconciling", "done"}
         /\ run[p].cmd[5] = "--commit"

\* C15: a foreground sync() can start whenever its caller is ready, also
\* while a job tagged "sync" is running, and it never appears among the jobs
\* tagged "sync".
C15_ForegroundNotGated ==
  \A r \in FgIds :
    /\ (run[r].pc \in {"free", "exited"} /\ fgRuns < MaxFgRuns) =>
         ENABLED syncForeground(r)
    /\ Alive(r) => (run[r].tag # "sync" /\ r \notin AliveJobs("sync"))

\* a foreground pass and a background pass are reconciling at the same time
C15_Witness ==
  \E r \in FgIds, p \in AliveJobs("sync") :
    /\ run[r].pc = "reconciling"
    /\ run[p].pc = "reconciling"

\* C16: the next backgroundSync() call can always be made, whatever job is
\* running, and every call that has been made has gone through
\* run_in_background with the identity "sync": the collaborator either saw
\* the job or was handed the one spawn request.
C16_AlwaysInvokesCollaborator ==
  \A k \in Calls :
    /\ (pc[k] = "idle" /\ k = ncalls + 1) => ENABLED backgroundSync(k)
    /\ Checked(k) =>
         \/ callLog[k].seen # {} /\ callLog[k].attempts = <<>>
         \/ /\ callLog[k].seen = {}
            /\ Len(callLog[k].attempts) = 1
            /\ callLog[k].attempts[1].tag = "sync"

\* the collaborator's check and spawn were not atomic: two calls overlapped
\* and two processes tagged "sync" are alive
C16_Witness ==
  /\ raced
  /\ Cardinality(AliveJobs("sync")) = 2
  /\ \A k \in {1, 2} : callLog[k].seen = {} /\ SpawnedBy(k) # {}

====
